---- MODULE Spec2Model ----
(***************************************************************************)
(* A model of nanocode (src/nanocode.py): the agent loop of main(), the    *)
(* dispatch of tool calls through run_tool(), the normalisation of tool    *)
(* arguments, the bash tool with its child process, and the tools edit,    *)
(* read, grep and glob, each called once on a file system drawn from a     *)
(* bounded set.                                                            *)
(*                                                                         *)
(* Python values are modelled by strings and sequences of strings.  A      *)
(* Python str that the program builds with an f-string is the sequence of  *)
(* its parts: f"error: {err}" is <<"error: ", err>>.                       *)
(***************************************************************************)
EXTENDS Integers, Sequences, FiniteSets, TLC

\* ------------------------------------------------------------------ bounds

\* The longest "outputs" list of one response of the remote service.
MaxOutputs == 2

\* ------------------------------------------------------- Python/JSON values

\* A key that a JSON object does not hold (dict.get falls back to its default).
Absent == "<absent>"
\* JSON null, Python None.
Null == "<None>"

\* Python truthiness of a token or an id: None and "" are falsy.
Truthy(x) == x \notin {Null, ""}

\* The values the "arguments" field of a function_call may hold, tagged by
\* their Python type.  A dict is the sequence of its keys, a str the sequence
\* of its JSON tokens.
Dict(keys) == [kind |-> "dict", val |-> keys]
Str(tokens) == [kind |-> "str", val |-> tokens]
NoneVal == [kind |-> "NoneType", val |-> <<>>]
IntVal == [kind |-> "int", val |-> <<"1">>]
ListVal == [kind |-> "list", val |-> <<>>]
AbsentVal == [kind |-> Absent, val |-> <<>>]

\* json.dumps of a value: its token sequence.
RECURSIVE EncodeMembers(_)
EncodeMembers(keys) ==
    IF keys = <<>> THEN <<>>
    ELSE IF Len(keys) = 1 THEN <<keys[1], ":", "v">>
    ELSE <<keys[1], ":", "v", ",">> \o EncodeMembers(Tail(keys))

Encode(v) ==
    CASE v.kind = "dict" -> <<"{">> \o EncodeMembers(v.val) \o <<"}">>
      [] v.kind = "list" -> <<"[", "]">>
      [] v.kind = "int" -> <<"1">>
      [] OTHER -> <<"null">>

\* The keys a tool reads from its arguments.
Keys == {"path", "pat", "cmd"}

\* The members of a JSON object, parsed: the sequence of its keys, or
\* <<Absent>> when the tokens are no member list.
RECURSIVE ParseMembers(_)
ParseMembers(s) ==
    IF Len(s) < 3 \/ s[1] \notin Keys \/ s[2] # ":" \/ s[3] # "v" THEN <<Absent>>
    ELSE IF Len(s) = 3 THEN <<s[1]>>
    ELSE IF s[4] # "," THEN <<Absent>>
    ELSE LET rest == ParseMembers(SubSeq(s, 5, Len(s)))
         IN  IF rest = <<Absent>> THEN <<Absent>> ELSE <<s[1]>> \o rest

\* What json.loads raises on a malformed document.
JSONDecodeError == [kind |-> "JSONDecodeError", val |-> <<>>]

\* json.loads of a token sequence: the value, or JSONDecodeError.
JsonLoads(s) ==
    CASE s = <<"null">> -> NoneVal
      [] s = <<"1">> -> IntVal
      [] s = <<"[", "]">> -> ListVal
      [] s = <<"{", "}">> -> Dict(<<>>)
      [] Len(s) > 2 /\ s[1] = "{" /\ s[Len(s)] = "}" ->
           LET m == ParseMembers(SubSeq(s, 2, Len(s) - 1))
           IN  IF m = <<Absent>> THEN JSONDecodeError ELSE Dict(m)
      [] OTHER -> JSONDecodeError

\* No error: the None of normalize_tool_args' second result.
NoError == <<>>

\* normalize_tool_args with a malformed string taken for no arguments.
normalize_tool_args_lenient(tool_args) ==
    IF tool_args.kind = "dict" THEN [args |-> tool_args, err |-> NoError]
    ELSE IF tool_args.kind = "str" THEN
        LET parsed == JsonLoads(tool_args.val)
        IN  [args |-> IF parsed = JSONDecodeError THEN Dict(<<>>) ELSE parsed,
             err |-> NoError]
    ELSE IF tool_args.kind = "NoneType" THEN [args |-> Dict(<<>>), err |-> NoError]
    ELSE [args |-> NoneVal,
          err |-> <<"error: ", "tool arguments must be object, got ", tool_args.kind>>]

\* normalize_tool_args(tool_args): the pair (args, error).
normalize_tool_args(tool_args) ==
    IF tool_args.kind = "dict" THEN [args |-> tool_args, err |-> NoError]
    ELSE IF tool_args.kind = "str" THEN
        LET parsed == JsonLoads(tool_args.val)
        IN  IF parsed = JSONDecodeError
            THEN [args |-> NoneVal,
                  err |-> <<"error: ", "tool arguments not valid JSON: ">> \o tool_args.val]
            ELSE [args |-> parsed, err |-> NoError]
    ELSE IF tool_args.kind = "NoneType" THEN [args |-> Dict(<<>>), err |-> NoError]
    ELSE [args |-> NoneVal,
          err |-> <<"error: ", "tool arguments must be object, got ", tool_args.kind>>]

\* ------------------------------------------------------------ tool registry

\* The names of TOOLS.
TOOLS == {"read", "write", "edit", "glob", "grep", "bash"}

\* The key each tool reads first from its arguments, with args["<key>"].
RequiredKey(name) ==
    CASE name \in {"read", "write", "edit"} -> "path"
      [] name \in {"glob", "grep"} -> "pat"
      [] OTHER -> "cmd"

\* How a Python call ends: it returns a str, raises, or never returns.
Return(s) == [kind |-> "return", val |-> s]
Raise(class, message) == [kind |-> "raise", val |-> <<class, message>>]
Hang == [kind |-> "hang", val |-> <<>>]

\* The classes that "except Exception" catches, among those raised here.
Exceptions ==
    {"KeyError", "TypeError", "OSError", "AttributeError", "RuntimeError",
     "URLError", "JSONDecodeError", "UnicodeEncodeError", "UnicodeDecodeError",
     "re.error"}

Range(s) == {s[i] : i \in DOMAIN s}

\* What TOOLS[name][2](args) may do.  A tool indexes its arguments with
\* args["<key>"]: a value that is no dict raises TypeError, a dict without the
\* key raises KeyError.  Otherwise the tool works on the file system or on a
\* child process: it returns its str, or raises OSError; bash may never return.
ToolOutcomes(name, args) ==
    IF args.kind # "dict" THEN {Raise("TypeError", "indices must be integers")}
    ELSE IF RequiredKey(name) \notin Range(args.val)
    THEN {Raise("KeyError", RequiredKey(name))}
    ELSE IF name = "bash" THEN {Return(<<"(empty)">>), Hang}
    ELSE {Return(<<"ok">>), Raise("OSError", "No such file or directory")}

\* The implementation is not reached when the lookup TOOLS[name] fails.
NotRun == [kind |-> "notrun", val |-> <<>>]

ImplOutcomes(name, args) ==
    IF name \in TOOLS THEN ToolOutcomes(name, args) ELSE {NotRun}

\* run_tool without its try/except.
run_tool_uncaught(name, args, impl) ==
    IF name \notin TOOLS THEN Raise("KeyError", name) ELSE impl

\* run_tool(name, args), where impl is what the implementation does.
run_tool(name, args, impl) ==
    LET body == IF name \notin TOOLS THEN Raise("KeyError", name) ELSE impl
    IN  IF body.kind = "raise" /\ body.val[1] \in Exceptions
        THEN Return(<<"error: ", body.val[2]>>)
        ELSE body

\* ------------------------------------------------------ the remote service

\* The ids a response may carry.
InteractionIds == {"i1", "i2"}

\* One entry of a response's "outputs".
Output(type, name, arguments, id) ==
    [type |-> type, name |-> name, arguments |-> arguments, id |-> id]

FunctionCall(name, arguments, id) == Output("function_call", name, arguments, id)
TextOutput == Output("text", Absent, AbsentVal, Absent)

\* The "arguments" a function_call may carry.
ArgValues ==
    {AbsentVal, NoneVal, IntVal, ListVal, Dict(<<>>), Dict(<<"path">>),
     Str(Encode(Dict(<<"path">>))), Str(Encode(Dict(<<>>))), Str(Encode(ListVal)),
     Str(Encode(NoneVal)), Str(<<"{", "path">>), Str(<<>>)}

\* The function calls the service may issue: every name with well-formed
\* arguments, and every shape of arguments for one registered tool.
Calls ==
    {FunctionCall(n, Dict(<<"path">>), "c1") :
        n \in {"read", "nosuch", Absent, Null}}
    \cup {FunctionCall("bash", Dict(<<"cmd">>), "c1")}
    \cup {FunctionCall("read", a, "c2") : a \in ArgValues}
    \cup {FunctionCall("read", Dict(<<"path">>), Absent)}

Outputs == Calls \cup {TextOutput}

\* The "id" of a decoded response that is a JSON object: a string, null or
\* absent.
ResponseIds == InteractionIds \cup {Absent, Null, ""}

\* ------------------------------------------------------------------- state

VARIABLES
    pc,                 \* where main() is: idle, awaiting, outputs, tools,
                        \* blocked, exited
    hasKey,             \* GEMINI_API_KEY is set
    token,              \* previous_interaction_id
    outputs,            \* the entries of the response's "outputs" that
                        \* handle_outputs has gone through
    tool_calls,         \* the function calls of the response being handled
    tool_results,       \* the results gathered for the next request
    callIdx,            \* the position of the for loop over tool_calls
    inFlight,           \* the request sent to the service and not yet answered
    event,              \* history: what main() did last
    tokenAtSend,        \* history: the token when the last request was sent
    execLog,            \* history: the calls processed since the last response
    reqsSinceResp,      \* history: requests sent since the last response or input
    reported,           \* history: errors printed since the last user text
    respId,             \* history: the "id" field of the last response handled
    afterClear,         \* history: "/c" was entered and no request sent since
    tokenOpen,          \* history: the token names a response with function
                        \* calls whose results no accepted request has carried
    bpc,                \* where bash() is: off, loop, wait, returned
    alive,              \* the child has not exited: proc.poll() is None
    pipeOpen,           \* some process holds the write end of proc.stdout
    pipe,               \* the lines written to proc.stdout and not yet read
    output_lines,       \* the lines bash has read
    streamed,           \* the lines bash has printed to the operator
    clock,              \* seconds since Popen
    waitStart,          \* the clock when proc.wait(timeout=30) was called
    killed,             \* proc.kill() was called
    returned,           \* what bash returned
    eofAt,              \* history: the clock when readline first returned ""
    ranLong,            \* history: the child was running after 30 seconds
    overdue,            \* history: the child was running 30 seconds after
                        \* the end of its output was read
    tool,               \* the file tool that is called: none, edit, read, grep,
                        \* glob
    call_args,          \* the arguments of the call
    done,               \* the call has ended
    tool_out,           \* how run_tool ended: what it returned
    file,               \* the content of the file at args["path"]: its
                        \* characters for edit, its lines for read
    before,             \* history: the content of the file when the tool was
                        \* called
    tree                \* the entries that globlib.glob yields, in its order

loopVars ==
    <<pc, hasKey, token, outputs, tool_calls, tool_results, callIdx, inFlight, event,
      tokenAtSend, execLog, reqsSinceResp, reported, respId, afterClear, tokenOpen>>

bashVars ==
    <<bpc, alive, pipeOpen, pipe, output_lines, streamed, clock, waitStart, killed,
      returned, eofAt, ranLong, overdue>>

toolVars == <<tool, call_args, done, tool_out, file, before, tree>>

vars == <<loopVars, bashVars, toolVars>>

NoResp == "<no response>"

NoRequest == [kind |-> "none", results |-> <<>>, prev |-> Absent, fresh |-> FALSE]

\* The locals of one pass of the inner "while True", before it has run; they
\* are dead between two passes.
NoBatch ==
    /\ outputs' = <<>>
    /\ tool_calls' = <<>>
    /\ tool_results' = <<>>
    /\ callIdx' = 1
    /\ execLog' = <<>>

\* No bash is running.
BashOff ==
    /\ bpc = "off"
    /\ alive = FALSE
    /\ pipeOpen = FALSE
    /\ pipe = <<>>
    /\ output_lines = <<>>
    /\ streamed = <<>>
    /\ clock = 0
    /\ waitStart = 0
    /\ killed = FALSE
    /\ returned = <<>>
    /\ eofAt = -1
    /\ ranLong = FALSE
    /\ overdue = FALSE

\* No file tool is called.
NoArgs == [path |-> Absent]

ToolsOff ==
    /\ tool = "none"
    /\ call_args = NoArgs
    /\ done = FALSE
    /\ tool_out = <<>>
    /\ file = <<>>
    /\ before = <<>>
    /\ tree = <<>>

\* The locals of main() before the first input().
LoopInit ==
    /\ pc = "idle"
    /\ token = Null
    /\ outputs = <<>>
    /\ tool_calls = <<>>
    /\ tool_results = <<>>
    /\ callIdx = 1
    /\ inFlight = NoRequest
    /\ event = "init"
    /\ tokenAtSend = Null
    /\ execLog = <<>>
    /\ reqsSinceResp = 0
    /\ reported = 0
    /\ respId = NoResp
    /\ afterClear = FALSE
    /\ tokenOpen = FALSE

\* main() up to the first input().
Init ==
    /\ LoopInit
    /\ hasKey \in BOOLEAN
    /\ BashOff
    /\ ToolsOff

\* The process has ended: "break" out of "while True".
Exit ==
    /\ pc' = "exited"
    /\ event' = "exit"
    /\ inFlight' = NoRequest
    /\ tokenAtSend' = Null
    /\ reqsSinceResp' = 0
    /\ reported' = 0
    /\ respId' = NoResp
    /\ afterClear' = FALSE
    /\ tokenOpen' = FALSE
    /\ NoBatch
    /\ UNCHANGED <<hasKey, token>>

\* The payload call_api builds: previous_interaction_id only for a truthy token.
Payload(kind, results, previous_interaction_id) ==
    [kind |-> kind,
     results |-> results,
     prev |-> IF Truthy(previous_interaction_id) THEN previous_interaction_id ELSE Absent,
     fresh |-> afterClear]

\* The stages of a turn in which an exception reaches "except Exception".
FaultEvents ==
    {"fault: credential", "fault: request", "fault: response", "fault: tools",
     "fault: dispatch"}

\* "except Exception as err: print(...)": back to the prompt.
Fault(stage, errors) ==
    /\ pc' = "idle"
    /\ event' = stage
    /\ reported' = errors + 1
    /\ inFlight' = NoRequest

\* call_api(input, ...) up to urlopen, called with `sent` requests sent and
\* `errors` errors printed: it raises without a key, else sends the request.
CallApi(kind, results, sent, errors) ==
    IF ~hasKey
    THEN /\ Fault("fault: credential", errors)
         /\ reqsSinceResp' = sent
         /\ UNCHANGED <<tokenAtSend, afterClear>>
    ELSE /\ pc' = "awaiting"
         /\ event' = "sent"
         /\ inFlight' = Payload(kind, results, token)
         /\ tokenAtSend' = token
         /\ reqsSinceResp' = sent + 1
         /\ afterClear' = FALSE
         /\ reported' = errors

\* input() returns an empty line: continue.
EmptyInput ==
    /\ pc = "idle"
    /\ UNCHANGED <<bashVars, toolVars>>
    /\ event' = "empty"
    /\ UNCHANGED <<pc, hasKey, token, outputs, tool_calls, tool_results, callIdx,
                   inFlight, tokenAtSend, execLog, reqsSinceResp, reported, respId,
                   afterClear, tokenOpen>>

\* "/q" or "exit": break.
Quit ==
    /\ pc = "idle"
    /\ UNCHANGED <<bashVars, toolVars>>
    /\ Exit

\* "/c": previous_interaction_id = None.
Clear ==
    /\ pc = "idle"
    /\ UNCHANGED <<bashVars, toolVars>>
    /\ token' = Null
    /\ event' = "cleared"
    /\ afterClear' = TRUE
    /\ tokenOpen' = FALSE
    /\ respId' = NoResp
    /\ UNCHANGED <<pc, hasKey, outputs, tool_calls, tool_results, callIdx, inFlight,
                   tokenAtSend, execLog, reqsSinceResp, reported>>

\* Any other input: the first call_api of a turn.
UserTurn ==
    /\ pc = "idle"
    /\ UNCHANGED <<bashVars, toolVars>>
    /\ CallApi("text", <<>>, 0, 0)
    /\ UNCHANGED <<hasKey, token, outputs, tool_calls, tool_results, callIdx, execLog,
                   respId, tokenOpen>>

\* urlopen raises, response.read() is no JSON, or the JSON is no object (then
\* interaction.get raises before previous_interaction_id is assigned).
RequestFails ==
    /\ pc = "awaiting"
    /\ UNCHANGED <<bashVars, toolVars>>
    /\ \E class \in {"URLError", "JSONDecodeError", "AttributeError"} :
          class \in Exceptions /\ Fault("fault: request", reported)
    /\ NoBatch
    /\ UNCHANGED <<hasKey, token, tokenAtSend, reqsSinceResp, respId, afterClear,
                   tokenOpen>>

\* interaction.get("id"): no fallback to the stored token.
IdOfNoDefault(id, previous_interaction_id) ==
    IF id = Absent THEN Null ELSE id

\* interaction.get("id", previous_interaction_id).
IdOf(id, previous_interaction_id) ==
    IF id = Absent THEN previous_interaction_id ELSE id

\* A response that decodes to an object: previous_interaction_id is assigned,
\* then handle_outputs starts on interaction.get("outputs", []).
Receive ==
    /\ pc = "awaiting"
    /\ UNCHANGED <<bashVars, toolVars>>
    /\ \E id \in ResponseIds :
        /\ token' = IdOf(id, token)
        /\ respId' = id
        /\ tokenOpen' = IF id # Absent THEN FALSE
                        ELSE IF inFlight.kind = "results" /\ respId # Absent THEN FALSE
                        ELSE tokenOpen
    /\ pc' = "outputs"
    /\ event' = "received"
    /\ inFlight' = NoRequest
    /\ reqsSinceResp' = 0
    /\ NoBatch
    /\ UNCHANGED <<hasKey, tokenAtSend, reported, afterClear>>

\* One pass of "for output in outputs" in handle_outputs: a function_call is
\* appended to tool_calls, a text is printed, any other type is skipped.
handle_output(calls, output) ==
    IF output.type = "function_call" THEN Append(calls, output) ELSE calls

HandleOutput ==
    /\ pc = "outputs"
    /\ UNCHANGED <<bashVars, toolVars>>
    /\ Len(outputs) < MaxOutputs
    /\ \E output \in Outputs :
        /\ tool_calls' = handle_output(tool_calls, output)
        /\ outputs' = Append(outputs, output)
        /\ tokenOpen' = (tokenOpen \/ (output.type = "function_call" /\ respId # Absent))
    /\ UNCHANGED <<pc, hasKey, token, tool_results, callIdx, inFlight, event,
                   tokenAtSend, execLog, reqsSinceResp, reported, respId, afterClear>>

\* "outputs" is no list, or its next entry is no object: the for loop or
\* output.get raises.
MalformedOutput ==
    /\ pc = "outputs"
    /\ UNCHANGED <<bashVars, toolVars>>
    /\ Fault("fault: response", reported)
    /\ NoBatch
    /\ UNCHANGED <<hasKey, token, tokenAtSend, reqsSinceResp, respId, afterClear,
                   tokenOpen>>

\* The turn ends after every response.
TurnCompleteAlways(calls) == TRUE

\* "if not tool_calls: break".
TurnComplete(calls) == calls = <<>>

\* The end of "outputs": the turn is complete, or the for loop starts.
OutputsDone ==
    /\ pc = "outputs"
    /\ UNCHANGED <<bashVars, toolVars>>
    /\ IF TurnComplete(tool_calls)
       THEN pc' = "idle" /\ event' = "turn done"
       ELSE pc' = "tools" /\ event' = "calls"
    /\ UNCHANGED <<hasKey, token, outputs, tool_calls, tool_results, callIdx, inFlight,
                   tokenAtSend, execLog, reqsSinceResp, reported, respId,
                   afterClear, tokenOpen>>

\* call.get("name", ""), call.get("arguments", {}) and call.get("id", "").
ToolName(call) == IF call.name = Absent THEN "" ELSE call.name
RawArgs(call) == IF call.arguments = AbsentVal THEN Dict(<<>>) ELSE call.arguments
CallId(call) == IF call.id = Absent THEN "" ELSE call.id

FunctionResult(call, result) ==
    [type |-> "function_result", name |-> ToolName(call), call_id |-> CallId(call),
     result |-> result]

\* The result put in front of the earlier ones.
AppendResultFirst(results, call, result) == <<FunctionResult(call, result)>> \o results

\* tool_results.append(...) at the end of one pass of the for loop.
AppendResult(results, call, result) == Append(results, FunctionResult(call, result))

\* One pass of "for call in tool_calls".
ExecTool ==
    /\ pc = "tools"
    /\ UNCHANGED <<bashVars, toolVars>>
    /\ callIdx <= Len(tool_calls)
    /\ LET call == tool_calls[callIdx]
           tool_name == ToolName(call)
           norm == normalize_tool_args(RawArgs(call))
       IN  IF tool_name = Null
           THEN \* tool_name.capitalize() raises AttributeError
                /\ Fault("fault: tools", reported)
                /\ NoBatch
           ELSE IF norm.err # NoError
           THEN /\ tool_results' = AppendResult(tool_results, call, norm.err)
                /\ execLog' = Append(execLog,
                     [idx |-> callIdx, raw |-> RawArgs(call), dispatched |-> FALSE,
                      args |-> norm.args, ran |-> FALSE, failed |-> TRUE])
                /\ callIdx' = callIdx + 1
                /\ event' = "tool"
                /\ UNCHANGED <<pc, reported, inFlight, outputs, tool_calls>>
           ELSE \E impl \in ImplOutcomes(tool_name, norm.args) :
                LET out == run_tool(tool_name, norm.args, impl)
                    entry == [idx |-> callIdx, raw |-> RawArgs(call), dispatched |-> TRUE,
                              args |-> norm.args, ran |-> impl # NotRun,
                              failed |-> impl.kind \in {"raise", "notrun"}]
                IN  CASE out.kind = "return" ->
                           /\ tool_results' = AppendResult(tool_results, call, out.val)
                           /\ execLog' = Append(execLog, entry)
                           /\ callIdx' = callIdx + 1
                           /\ event' = "tool"
                           /\ UNCHANGED <<pc, reported, inFlight, outputs, tool_calls>>
                      [] out.kind = "raise" ->
                           /\ Fault("fault: dispatch", reported)
                           /\ NoBatch
                      [] OTHER ->
                           /\ pc' = "blocked"
                           /\ event' = "blocked"
                           /\ execLog' = Append(execLog, entry)
                           /\ UNCHANGED <<tool_results, callIdx, reported, inFlight,
                                          outputs, tool_calls>>
    /\ UNCHANGED <<hasKey, token, tokenAtSend, reqsSinceResp, respId, afterClear,
                   tokenOpen>>

\* After the for loop: call_api(tool_results, ...).
SendResults ==
    /\ pc = "tools"
    /\ UNCHANGED <<bashVars, toolVars>>
    /\ callIdx > Len(tool_calls)
    /\ CallApi("results", tool_results, reqsSinceResp, reported)
    /\ UNCHANGED <<hasKey, token, outputs, tool_calls, tool_results, callIdx, execLog,
                   respId, tokenOpen>>

\* KeyboardInterrupt or EOFError, at the prompt or anywhere in a turn: break.
Interrupt ==
    /\ pc # "exited"
    /\ UNCHANGED <<bashVars, toolVars>>
    /\ Exit

\* -------------------------------------------------------------------- bash

\* The lines the child writes in all, and the seconds that pass.
MaxLines == 2
MaxTime == 31

\* proc.wait(timeout=30).
Timeout == 30

\* "\n(timed out after 30s)".
TimeoutMarker == <<"\n", "(timed out after 30s)">>

\* A line of output as readline returns it, newline included: a line of text,
\* a blank line, or a line of text with blanks around it.
Lines == {<<"x", "\n">>, <<"\n">>, <<" ", "x", " ", "\n">>}

Whitespace == {"\n", " "}

\* str.rstrip(), str.lstrip() and str.strip().
RECURSIVE RStrip(_)
RStrip(s) ==
    IF s # <<>> /\ s[Len(s)] \in Whitespace THEN RStrip(SubSeq(s, 1, Len(s) - 1)) ELSE s

RECURSIVE LStrip(_)
LStrip(s) == IF s # <<>> /\ Head(s) \in Whitespace THEN LStrip(Tail(s)) ELSE s

Strip(s) == LStrip(RStrip(s))

\* "".join(lines).
RECURSIVE Join(_)
Join(lines) == IF lines = <<>> THEN <<>> ELSE Head(lines) \o Join(Tail(lines))

\* "".join(output_lines): neither stripped nor replaced when empty.
BashResultRaw(lines) == Join(lines)

\* "".join(output_lines).strip() or "(empty)".
BashResult(lines) ==
    LET text == Strip(Join(lines)) IN IF text = <<>> THEN <<"(empty)">> ELSE text

\* bash(args) after Popen: the child runs, nothing is read yet.
BashInit ==
    /\ LoopInit
    /\ hasKey = TRUE
    /\ bpc = "loop"
    /\ alive = TRUE
    /\ pipeOpen = TRUE
    /\ pipe = <<>>
    /\ output_lines = <<>>
    /\ streamed = <<>>
    /\ clock = 0
    /\ waitStart = 0
    /\ killed = FALSE
    /\ returned = <<>>
    /\ eofAt = -1
    /\ ranLong = FALSE
    /\ overdue = FALSE
    /\ ToolsOff

\* The child, or a process it started, writes a line to its output.
ChildWrite ==
    /\ bpc \in {"loop", "wait"}
    /\ pipeOpen
    /\ Len(pipe) + Len(output_lines) < MaxLines
    /\ \E line \in Lines : pipe' = Append(pipe, line)
    /\ UNCHANGED <<bpc, alive, pipeOpen, output_lines, streamed, clock, waitStart,
                   killed, returned, eofAt, ranLong, overdue>>
    /\ UNCHANGED <<loopVars, toolVars>>

\* The last process holding the output closes it.
ChildClose ==
    /\ bpc \in {"loop", "wait"}
    /\ pipeOpen
    /\ pipeOpen' = FALSE
    /\ UNCHANGED <<bpc, alive, pipe, output_lines, streamed, clock, waitStart,
                   killed, returned, eofAt, ranLong, overdue>>
    /\ UNCHANGED <<loopVars, toolVars>>

\* The child exits; a process it started may still hold its output.
ChildExit ==
    /\ bpc \in {"loop", "wait"}
    /\ alive
    /\ alive' = FALSE
    /\ UNCHANGED <<bpc, pipeOpen, pipe, output_lines, streamed, clock, waitStart,
                   killed, returned, eofAt, ranLong, overdue>>
    /\ UNCHANGED <<loopVars, toolVars>>

\* bash cannot take a step now: readline blocks on an open, empty pipe; the
\* loop spins on a closed pipe while the child runs; wait blocks on a running
\* child until its timeout.
BashBlocked ==
    \/ bpc = "loop" /\ pipe = <<>> /\ pipeOpen
    \/ bpc = "loop" /\ pipe = <<>> /\ ~pipeOpen /\ alive /\ eofAt >= 0
    \/ bpc = "wait" /\ alive /\ clock - waitStart < Timeout

\* A second passes; bash's own steps take no time.
Tick ==
    /\ BashBlocked
    /\ clock < MaxTime
    /\ clock' = clock + 1
    /\ ranLong' = (ranLong \/ (alive /\ clock' > Timeout))
    /\ overdue' = (overdue \/ (alive /\ eofAt >= 0 /\ clock' - eofAt > Timeout))
    /\ UNCHANGED <<bpc, alive, pipeOpen, pipe, output_lines, streamed, waitStart,
                   killed, returned, eofAt>>
    /\ UNCHANGED <<loopVars, toolVars>>

\* "if not line and proc.poll() is not None: break".
LoopBreaks(line, childAlive) == line = <<>> /\ ~childAlive

\* One pass of "while True": readline returns a line, or "" at the end of the
\* output; the loop breaks at the end of the output of a child that has exited.
BashReadline ==
    /\ bpc = "loop"
    /\ pipe # <<>> \/ ~pipeOpen
    /\ LET line == IF pipe # <<>> THEN Head(pipe) ELSE <<>>
       IN  /\ pipe' = IF pipe # <<>> THEN Tail(pipe) ELSE pipe
           /\ eofAt' = IF line = <<>> /\ eofAt = -1 THEN clock ELSE eofAt
           /\ IF LoopBreaks(line, alive)
              THEN /\ bpc' = "wait"
                   /\ waitStart' = clock
                   /\ UNCHANGED <<output_lines, streamed>>
              ELSE /\ UNCHANGED <<bpc, waitStart>>
                   /\ IF line # <<>>
                      THEN /\ streamed' = Append(streamed, RStrip(line))
                           /\ output_lines' = Append(output_lines, line)
                      ELSE UNCHANGED <<output_lines, streamed>>
    /\ UNCHANGED <<alive, pipeOpen, clock, killed, returned, ranLong, overdue>>
    /\ UNCHANGED <<loopVars, toolVars>>

\* proc.wait(timeout=30) and the return: wait returns when the child has
\* exited; it raises TimeoutExpired after 30 seconds, and then the child is
\* killed and the marker appended.
BashWait ==
    /\ bpc = "wait"
    /\ alive => clock - waitStart >= Timeout
    /\ IF alive
       THEN /\ killed' = TRUE
            /\ alive' = FALSE
            /\ output_lines' = Append(output_lines, TimeoutMarker)
       ELSE UNCHANGED <<killed, alive, output_lines>>
    /\ returned' = BashResult(output_lines')
    /\ bpc' = "returned"
    /\ UNCHANGED <<pipeOpen, pipe, streamed, clock, waitStart, eofAt, ranLong, overdue>>
    /\ UNCHANGED <<loopVars, toolVars>>

BashNext ==
    \/ ChildWrite
    \/ ChildClose
    \/ ChildExit
    \/ Tick
    \/ BashReadline
    \/ BashWait

BashSpec == BashInit /\ [][BashNext]_vars

\* The interpreter keeps running bash, and time passes.
BashFairSpec ==
    BashSpec /\ WF_vars(BashReadline) /\ WF_vars(BashWait) /\ WF_vars(Tick)

\* -------------------------------------------------------------------- edit

\* The longest file and the longest old string, in characters.
MaxText == 3
MaxOld == 2

\* The characters of a file, and the strings of at most n characters.
Chars == {"a", "b"}
Texts(n) == UNION {[1..k -> Chars] : k \in 0..n}

\* A lone surrogate, which json.loads yields for "\ud800" and which the
\* encoding of a file cannot encode.
Surrogate == "\\ud800"

\* The content of a path that holds no file.
NoFile == <<Absent>>

\* text[i:].startswith(old), with i counted from 1.
MatchAt(text, old, i) ==
    /\ i + Len(old) - 1 <= Len(text)
    /\ \A k \in 1..Len(old) : text[i + k - 1] = old[k]

\* text.find(old, i): the first position from i on where old starts, or 0.
Find(text, old, i) ==
    LET found == {j \in i..(Len(text) + 1) : MatchAt(text, old, j)}
    IN  IF found = {} THEN 0 ELSE CHOOSE j \in found : \A m \in found : j <= m

\* text.count(old): the occurrences of old that do not overlap, counted from
\* the left; the empty string occurs before every character and at the end.
RECURSIVE CountFrom(_, _, _)
CountFrom(text, old, i) ==
    LET j == Find(text, old, i)
    IN  IF j = 0 THEN 0 ELSE 1 + CountFrom(text, old, j + Len(old))

Count(text, old) == IF old = <<>> THEN Len(text) + 1 ELSE CountFrom(text, old, 1)

\* text.replace(old, new, n); n = -1 replaces every occurrence.
RECURSIVE ReplaceEmpty(_, _, _, _)
ReplaceEmpty(text, new, i, n) ==
    IF n = 0 THEN SubSeq(text, i, Len(text))
    ELSE IF i > Len(text) THEN new
    ELSE new \o <<text[i]>> \o ReplaceEmpty(text, new, i + 1, n - 1)

RECURSIVE ReplaceFrom(_, _, _, _, _)
ReplaceFrom(text, old, new, i, n) ==
    LET j == Find(text, old, i)
    IN  IF n = 0 \/ j = 0 THEN SubSeq(text, i, Len(text))
        ELSE SubSeq(text, i, j - 1) \o new \o ReplaceFrom(text, old, new, j + Len(old), n - 1)

Replace(text, old, new, n) ==
    IF old = <<>> THEN ReplaceEmpty(text, new, 1, n) ELSE ReplaceFrom(text, old, new, 1, n)

\* "not args.get('all')".
AllValues == {Absent, "False", "True"}
NotAll(args) == args.all \in {Absent, "False"}

\* f.write(s) can encode s.
Encodable(s) == Surrogate \notin Range(s)

\* How a tool ends, and the file it leaves.
Ended(outcome, content) == [out |-> outcome, file |-> content]

\* edit(args) on a file of the given content.  open(path, "w") empties the
\* file before f.write encodes the replacement.
edit(content, args) ==
    IF content = NoFile
    THEN Ended(Raise("OSError", "No such file or directory"), content)
    ELSE LET text == content
             old == args.old
             new == args.new
             count == Count(text, old)
             replacement == IF NotAll(args) THEN Replace(text, old, new, 1)
                            ELSE Replace(text, old, new, -1)
         IN  IF Find(text, old, 1) = 0
             THEN Ended(Return(<<"error: ", "old_string not found">>), content)
             ELSE IF NotAll(args) /\ count > 1
             THEN Ended(Return(<<"error: ", "old_string appears ", ToString(count),
                                 " times, must be unique (use all=true)">>), content)
             ELSE IF ~Encodable(replacement)
             THEN Ended(Raise("UnicodeEncodeError", "surrogates not allowed"), <<>>)
             ELSE Ended(Return(<<"ok">>), replacement)

\* The new strings of a call: empty, a character the file does not hold, a
\* string that holds an old string, a string that cannot be encoded.
News == {<<>>, <<"c">>, <<"a", "a">>, <<Surrogate>>}

EditArgs == [path : {"f"}, old : Texts(MaxOld), new : News, all : AllValues]

\* run_tool("edit", args) is about to be called on some file, or on no file.
EditInit ==
    /\ LoopInit
    /\ hasKey = TRUE
    /\ BashOff
    /\ tool = "edit"
    /\ call_args \in EditArgs
    /\ done = FALSE
    /\ tool_out = <<>>
    /\ file \in Texts(MaxText) \cup {NoFile}
    /\ before = file
    /\ tree = <<>>

\* run_tool("edit", args).
Edit ==
    /\ tool = "edit"
    /\ ~done
    /\ LET end == edit(file, call_args)
       IN  /\ tool_out' = run_tool("edit", Dict(<<"path", "old", "new">>), end.out)
           /\ file' = end.file
    /\ done' = TRUE
    /\ UNCHANGED <<tool, call_args, before, tree>>
    /\ UNCHANGED <<loopVars, bashVars>>

EditSpec == EditInit /\ [][Edit]_vars

\* -------------------------------------------------------------------- read

\* The longest file, in lines.
MaxFileLines == 3

\* The file of n lines; the text of a line is its place in the file.
FileOf(n) == [i \in 1..n |-> ToString(i)]

\* An optional key of args: <<>> when absent, <<v>> when it holds v.
Missing == <<>>
Given(v) == <<v>>

\* args.get(key, default).
Get(value, default) == IF value = Missing THEN default ELSE value[1]

\* lines[start:stop]: an index below zero counts from the end, and both
\* indices are clamped to the list.
SliceIndex(i, n) ==
    IF i < 0 THEN (IF i + n < 0 THEN 0 ELSE i + n) ELSE (IF i > n THEN n ELSE i)

Slice(lines, start, stop) ==
    SubSeq(lines, SliceIndex(start, Len(lines)) + 1, SliceIndex(stop, Len(lines)))

\* f"{offset + idx + 1:4}| {line}": the number and the line.
Numbered(number, line) == [num |-> number, line |-> line]

\* read(args) on a file of the given lines.
read(content, args) ==
    IF content = NoFile
    THEN Ended(Raise("OSError", "No such file or directory"), content)
    ELSE LET lines == content
             offset == Get(args.offset, 0)
             limit == Get(args.limit, Len(lines))
             selected == Slice(lines, offset, offset + limit)
         IN  Ended(Return([idx \in 1..Len(selected) |->
                               Numbered(offset + (idx - 1) + 1, selected[idx])]),
                   content)

\* The offsets and limits of a call: none, or an integer around the file's
\* range.
Indexes ==
    {Missing} \cup {Given(i) : i \in (0 - MaxFileLines - 2)..(MaxFileLines + 2)}

ReadArgs == [path : {"f"}, offset : Indexes, limit : Indexes]

\* run_tool("read", args) is about to be called on some file, or on no file.
ReadInit ==
    /\ LoopInit
    /\ hasKey = TRUE
    /\ BashOff
    /\ tool = "read"
    /\ call_args \in ReadArgs
    /\ done = FALSE
    /\ tool_out = <<>>
    /\ file \in {FileOf(n) : n \in 0..MaxFileLines} \cup {NoFile}
    /\ before = file
    /\ tree = <<>>

\* run_tool("read", args).
Read ==
    /\ tool = "read"
    /\ ~done
    /\ LET end == read(file, call_args)
       IN  /\ tool_out' = run_tool("read", Dict(<<"path">>), end.out)
           /\ file' = end.file
    /\ done' = TRUE
    /\ UNCHANGED <<tool, call_args, before, tree>>
    /\ UNCHANGED <<loopVars, bashVars>>

ReadSpec == ReadInit /\ [][Read]_vars

\* -------------------------------------------------------------------- grep

\* The most entries that globlib.glob yields, and the lines of a long file.
MaxEntries == 3
MaxGrepLines == 51

\* hits[:50].
HitLimit == 50

\* The lines of a file: one that the pattern matches, one that it does not
\* match, one that it matches and that ends in a blank.
MatchLine == <<"x", "\n">>
OtherLine == <<"y", "\n">>
BlankEndLine == <<"x", " ", "\n">>

\* pattern.search(line) for the pattern "x".
Search(line) == "x" \in Range(line)

\* What glob yields: a directory, a file that cannot be opened, or a file
\* with its lines; failAt is the number of lines that the iteration over the
\* file yields before it raises (a sequence of bytes that cannot be decoded),
\* or -1 when it raises nothing.
Directory == [kind |-> "dir", lines |-> <<>>, failAt |-> -1]
Denied == [kind |-> "denied", lines |-> <<>>, failAt |-> -1]
TextFile(lines, failAt) == [kind |-> "file", lines |-> lines, failAt |-> failAt]

EntryKinds ==
    {Directory, Denied,
     TextFile(<<BlankEndLine>>, -1),
     TextFile(<<OtherLine>>, -1),
     TextFile([i \in 1..MaxGrepLines |-> MatchLine], -1),
     TextFile([i \in 1..MaxGrepLines |-> IF i % 2 = 0 THEN MatchLine ELSE OtherLine], -1),
     TextFile([i \in 1..MaxGrepLines |-> MatchLine], 1)}

\* The entry of the given kind at the i-th place of what glob yields.
EntryAt(kind, i) == [path |-> "p" \o ToString(i), entry |-> kind]

Trees ==
    UNION {{[i \in 1..n |-> EntryAt(kinds[i], i)] : kinds \in [1..n -> EntryKinds]} :
              n \in 0..MaxEntries}

\* f"{filepath}:{line_num}:{line.rstrip()}".
Hit(filepath, line_num, line) == <<filepath, ":", ToString(line_num), ":">> \o RStrip(line)

\* "for line_num, line in enumerate(open(filepath), 1)" from line i on, inside
\* "try ... except Exception: pass": the hits appended before open or the
\* iteration raises stay in the list.
RECURSIVE FileHits(_, _)
FileHits(f, i) ==
    LET yielded == IF f.entry.failAt = -1 THEN Len(f.entry.lines) ELSE f.entry.failAt
    IN  IF f.entry.kind # "file" \/ i > yielded THEN <<>>
        ELSE (IF Search(f.entry.lines[i]) THEN <<Hit(f.path, i, f.entry.lines[i])>> ELSE <<>>)
             \o FileHits(f, i + 1)

\* "for filepath in globlib.glob(...)".
RECURSIVE TreeHits(_)
TreeHits(entries) ==
    IF entries = <<>> THEN <<>> ELSE FileHits(Head(entries), 1) \o TreeHits(Tail(entries))

\* "\n".join(lines).
RECURSIVE JoinLines(_)
JoinLines(ls) ==
    IF ls = <<>> THEN <<>>
    ELSE IF Len(ls) = 1 THEN ls[1]
    ELSE ls[1] \o <<"\n">> \o JoinLines(Tail(ls))

\* Every hit, with no limit.
AllHits(hits) == hits

\* hits[:50].
FirstHits(hits) == SubSeq(hits, 1, IF Len(hits) < HitLimit THEN Len(hits) ELSE HitLimit)

\* The patterns of a call: one that compiles, one that does not.
Patterns == {"x", "("}

\* grep(args) over what glob yields.
grep(entries, args) ==
    IF args.pat = "("
    THEN Raise("re.error", "missing ), unterminated subpattern at position 0")
    ELSE LET text == JoinLines(FirstHits(TreeHits(entries)))
         IN  Return(IF text = <<>> THEN <<"none">> ELSE text)

\* run_tool("grep", args) is about to be called.
GrepInit ==
    /\ LoopInit
    /\ hasKey = TRUE
    /\ BashOff
    /\ tool = "grep"
    /\ call_args \in [path : {"d"}, pat : Patterns]
    /\ done = FALSE
    /\ tool_out = <<>>
    /\ file = <<>>
    /\ before = <<>>
    /\ tree \in Trees

\* run_tool("grep", args).
Grep ==
    /\ tool = "grep"
    /\ ~done
    /\ tool_out' = run_tool("grep", Dict(<<"pat", "path">>), grep(tree, call_args))
    /\ done' = TRUE
    /\ UNCHANGED <<tool, call_args, file, before, tree>>
    /\ UNCHANGED <<loopVars, bashVars>>

GrepSpec == GrepInit /\ [][Grep]_vars

\* -------------------------------------------------------------------- glob

\* The latest modification time of a file, in seconds since 1970.
MaxMtime == 2

\* The modification times of a file: before 1970, 1970, and later.
Mtimes == (0 - 1)..MaxMtime

\* What glob yields: a regular file with its modification time, or something
\* that os.path.isfile denies (a directory, a dangling link).
RegularFile(mtime) == [isfile |-> TRUE, mtime |-> mtime]
NoRegularFile == [isfile |-> FALSE, mtime |-> 1]

GlobKinds == {RegularFile(m) : m \in Mtimes} \cup {NoRegularFile}

GlobTrees ==
    UNION {{[i \in 1..n |-> EntryAt(kinds[i], i)] : kinds \in [1..n -> GlobKinds]} :
              n \in 0..MaxEntries}

\* "lambda f: os.path.getmtime(f) if os.path.isfile(f) else 0".
SortKey(f) == IF f.entry.isfile THEN f.entry.mtime ELSE 0

\* sorted(files, key=..., reverse=True): by descending key, and entries of
\* equal keys in the order they had.
Insert(sorted, f) ==
    LET ahead == Cardinality({i \in DOMAIN sorted : SortKey(sorted[i]) >= SortKey(f)})
    IN  SubSeq(sorted, 1, ahead) \o <<f>> \o SubSeq(sorted, ahead + 1, Len(sorted))

RECURSIVE Sorted(_)
Sorted(files) ==
    IF files = <<>> THEN <<>>
    ELSE Insert(Sorted(SubSeq(files, 1, Len(files) - 1)), files[Len(files)])

\* glob(args) over what globlib.glob yields.
glob(entries, args) ==
    LET files == Sorted(entries)
        text == JoinLines([i \in DOMAIN files |-> <<files[i].path>>])
    IN  Return(IF text = <<>> THEN <<"none">> ELSE text)

\* run_tool("glob", args) is about to be called.
GlobInit ==
    /\ LoopInit
    /\ hasKey = TRUE
    /\ BashOff
    /\ tool = "glob"
    /\ call_args \in [path : {"d"}, pat : {"*"}]
    /\ done = FALSE
    /\ tool_out = <<>>
    /\ file = <<>>
    /\ before = <<>>
    /\ tree \in GlobTrees

\* run_tool("glob", args).
Glob ==
    /\ tool = "glob"
    /\ ~done
    /\ tool_out' = run_tool("glob", Dict(<<"pat", "path">>), glob(tree, call_args))
    /\ done' = TRUE
    /\ UNCHANGED <<tool, call_args, file, before, tree>>
    /\ UNCHANGED <<loopVars, bashVars>>

GlobSpec == GlobInit /\ [][Glob]_vars

\* ------------------------------------------------------------ the agent loop

Next ==
    \/ EmptyInput
    \/ Quit
    \/ Clear
    \/ UserTurn
    \/ RequestFails
    \/ Receive
    \/ HandleOutput
    \/ MalformedOutput
    \/ OutputsDone
    \/ ExecTool
    \/ SendResults
    \/ Interrupt

Spec == Init /\ [][Next]_vars

\* ------------------------------------------------------------------ claims

\* A result of the form "error: <message>".
IsErrorString(s) == Len(s) >= 2 /\ s[1] = "error: "

\* The function_call entries of a response's outputs, in the order received.
RECURSIVE CallsOf(_)
CallsOf(outs) ==
    IF outs = <<>> THEN <<>>
    ELSE IF Head(outs).type = "function_call" THEN <<Head(outs)>> \o CallsOf(Tail(outs))
    ELSE CallsOf(Tail(outs))

\* The id and the name a result carries for a call; an absent field is "".
IdField(call) == IF call.id = Absent THEN "" ELSE call.id
NameField(call) == IF call.name = Absent THEN "" ELSE call.name

\* C1: within a turn, the request that follows a response with function calls
\* carries exactly one function_result per function_call of that response, in
\* the order received, each with the call's id as call_id and the call's name;
\* it is sent only after every call has produced its result, and each call is
\* processed at most once.
C1_ResultsAnswerCalls ==
    /\ Len(execLog) <= Len(tool_calls)
    /\ \A k \in DOMAIN execLog : execLog[k].idx = k
    /\ pc \in {"tools", "blocked", "awaiting"} => tool_calls = CallsOf(outputs)
    /\ inFlight.kind = "results" => pc = "awaiting" /\ CallsOf(outputs) # <<>>
    /\ pc = "awaiting" /\ CallsOf(outputs) # <<>> =>
         /\ inFlight.kind = "results"
         /\ reqsSinceResp = 1
         /\ Len(execLog) = Len(CallsOf(outputs))
         /\ Len(inFlight.results) = Len(CallsOf(outputs))
         /\ \A k \in DOMAIN inFlight.results :
              /\ inFlight.results[k].type = "function_result"
              /\ inFlight.results[k].call_id = IdField(CallsOf(outputs)[k])
              /\ inFlight.results[k].name = NameField(CallsOf(outputs)[k])

\* C1's case: a request carrying the results of two calls with different ids.
C1_Witness ==
    /\ pc = "awaiting"
    /\ inFlight.kind = "results"
    /\ Len(inFlight.results) = 2
    /\ inFlight.results[1].call_id # inFlight.results[2].call_id

\* C2: dispatch never propagates a failure: when the lookup of the tool or the
\* tool itself fails, run_tool returns a string of the form "error: <message>",
\* the turn is not aborted, and the remaining calls of the response are still
\* processed before the results are sent.
C2_DispatchFailuresAreResults ==
    /\ event # "fault: dispatch"
    /\ \A k \in DOMAIN execLog :
         execLog[k].dispatched /\ execLog[k].failed /\ pc # "blocked" =>
            /\ k <= Len(tool_results)
            /\ IsErrorString(tool_results[k].result)
    /\ pc = "tools" => callIdx = Len(execLog) + 1 /\ Len(tool_results) = Len(execLog)
    /\ pc = "awaiting" /\ inFlight.kind = "results" => Len(execLog) = Len(tool_calls)

\* C2's case: a tool that raised and then a lookup that failed, both turned
\* into results, the loop still going.
C2_Witness ==
    /\ pc = "tools"
    /\ Len(execLog) = 2
    /\ execLog[1].failed /\ execLog[1].ran
    /\ execLog[2].failed /\ execLog[2].dispatched /\ ~execLog[2].ran
    /\ Len(tool_results) = 2

\* C6: a fault in any step of a turn aborts the turn only: it is reported
\* once, the failed request is not retried, the token keeps the value it had
\* before the failed request, and the loop is back at the prompt (the process
\* has not exited).
C6_FaultAbortsOnlyTheTurn ==
    event \in FaultEvents =>
        /\ pc = "idle"
        /\ reported = 1
        /\ inFlight = NoRequest
        /\ reqsSinceResp <= 1
        /\ event \in {"fault: request", "fault: response"} => token = tokenAtSend

\* C6 without the token: what holds of every fault.
C6_FaultReturnsToPrompt ==
    event \in FaultEvents =>
        /\ pc = "idle"
        /\ reported = 1
        /\ inFlight = NoRequest
        /\ reqsSinceResp <= 1
        /\ event = "fault: request" => token = tokenAtSend

\* C7: a turn returns to the prompt exactly when a response without function
\* calls is received, or on a fault: a response with function calls leads to the
\* processing of its calls and then to exactly one further request, and a
\* response without any leads to no further request and to no tool execution.
C7_TurnEndsOnResponseWithoutCalls ==
    /\ event = "turn done" =>
         /\ pc = "idle"
         /\ CallsOf(outputs) = <<>>
         /\ execLog = <<>>
         /\ inFlight = NoRequest
         /\ reqsSinceResp = 0
    /\ pc = "idle" => event \in {"init", "empty", "cleared", "turn done"} \cup FaultEvents
    /\ event = "calls" => pc = "tools" /\ CallsOf(outputs) # <<>>
    /\ pc \in {"tools", "blocked"} => CallsOf(outputs) # <<>> /\ reqsSinceResp = 0
    /\ inFlight.kind = "results" =>
         /\ CallsOf(outputs) # <<>>
         /\ Len(execLog) = Len(CallsOf(outputs))
         /\ reqsSinceResp = 1

\* C7's case: a response with a text and one function call, its call processed
\* and the one further request sent.
C7_Witness ==
    /\ pc = "awaiting"
    /\ inFlight.kind = "results"
    /\ Len(outputs) = 2
    /\ Len(CallsOf(outputs)) = 1
    /\ Len(execLog) = 1
    /\ reqsSinceResp = 1

\* C8: the token, once set, becomes unset only by "/c", whatever the id of a
\* response holds or omits, and the first request after "/c" carries no
\* previous_interaction_id.
C8_TokenClearedOnlyByCommand ==
    /\ [][Truthy(token) /\ ~Truthy(token') => event' = "cleared"]_vars
    /\ [](inFlight.fresh => inFlight.prev = Absent)

Mappings == {Dict(<<>>)} \cup {Dict(<<k>>) : k \in Keys}
WellFormed(tokens) == \E v \in Mappings \cup {NoneVal, IntVal, ListVal} : tokens = Encode(v)

\* C10: the arguments of a call are normalised: a mapping passes unchanged; a
\* well-formed string that encodes a mapping is parsed to that mapping; a
\* malformed string gives an "error: ..." result and the tool is not invoked;
\* None or no arguments field gives an empty mapping; any other shape gives an
\* "error: ..." result and the tool is not invoked.
C10_ArgumentsNormalized ==
    \A k \in DOMAIN execLog :
        LET given == tool_calls[k].arguments
            e == execLog[k]
            refused == /\ ~e.dispatched
                       /\ ~e.ran
                       /\ k <= Len(tool_results)
                       /\ IsErrorString(tool_results[k].result)
        IN  /\ given.kind = "dict" => e.dispatched /\ e.args = given
            /\ given.kind = "str" =>
                 /\ \A d \in Mappings :
                      given.val = Encode(d) => e.dispatched /\ e.args = d
                 /\ ~WellFormed(given.val) => refused
            /\ given.kind \in {"NoneType", Absent} => e.dispatched /\ e.args = Dict(<<>>)
            /\ given.kind \in {"int", "list"} => refused

\* C10's case: a malformed string refused and a string-encoded mapping parsed
\* in the same response.
C10_Witness ==
    /\ Len(execLog) = 2
    /\ tool_calls[1].arguments = Str(<<"{", "path">>)
    /\ ~execLog[1].dispatched
    /\ tool_calls[2].arguments = Str(<<"{", "path", ":", "v", "}">>)
    /\ execLog[2].args = Dict(<<"path">>)

\* A result whose last line is the timeout marker.
EndsWithMarker(s) == s # <<>> /\ s[Len(s)] = "(timed out after 30s)"

\* C3: bash on a command that keeps running for more than 30 seconds returns a
\* result that ends with the marker "(timed out after 30s)", and the child is
\* no longer running once bash has returned.
C3_LongCommandTimesOut ==
    bpc = "returned" /\ ranLong => EndsWithMarker(returned) /\ ~alive

\* C4: once the end of the child's output has been read, a child that has not
\* exited when 30 seconds have passed is killed, and the marker is appended
\* after all the output read.
C4_OverdueChildIsKilled ==
    bpc = "returned" /\ overdue =>
        /\ killed
        /\ ~alive
        /\ EndsWithMarker(returned)
        /\ returned = BashResult(Append(SelectSeq(output_lines, LAMBDA l : l \in Lines),
                                        TimeoutMarker))

\* C5: every bash invocation eventually returns, whatever the child does.
C5_BashReturns == <>(bpc = "returned")

\* The places where old occurs in text, and how many they are.
Sites(text, old) == {i \in 1..(Len(text) + 1) : MatchAt(text, old, i)}
Occurrences(text, old) == Cardinality(Sites(text, old))
FirstSite(text, old) == CHOOSE i \in Sites(text, old) : \A j \in Sites(text, old) : i <= j

\* The text with new in the place of the n characters from position i on.
Splice(text, i, n, new) ==
    SubSeq(text, 1, i - 1) \o new \o SubSeq(text, i + n, Len(text))

\* edit was called on an existing file and has ended.
EditEnded == tool = "edit" /\ done /\ before # NoFile

\* The result is a returned string of the form "error: ...".
ErrorResult == tool_out.kind = "return" /\ IsErrorString(tool_out.val)

\* C11: when old occurs k > 1 times in the file and all is absent or false,
\* edit returns an error string that contains the count k, and the file keeps
\* its content.
C11_AmbiguousEditRefused ==
    EditEnded /\ NotAll(call_args) /\ Occurrences(before, call_args.old) > 1 =>
        /\ ErrorResult
        /\ ToString(Occurrences(before, call_args.old)) \in Range(tool_out.val)
        /\ file = before

\* C12: when old occurs exactly once, edit puts new in its place and leaves
\* every other character of the file as it was; with all true and k >= 1
\* occurrences, all k are replaced; with all false, nothing but the first
\* occurrence is ever changed.
C12_EditReplaces ==
    EditEnded =>
        LET old == call_args.old
            new == call_args.new
            k == Occurrences(before, old)
            once == Splice(before, FirstSite(before, old), Len(old), new)
        IN  /\ k = 1 => tool_out = Return(<<"ok">>) /\ file = once
            /\ ~NotAll(call_args) /\ k >= 1 =>
                 /\ tool_out = Return(<<"ok">>)
                 /\ Len(file) = Len(before) + k * (Len(new) - Len(old))
            /\ NotAll(call_args) /\ k >= 1 => file \in {before, once}

\* C13: when old is no substring of the file, edit returns an error string, as
\* a value and not as an exception, and the file keeps its content, whatever
\* all is; and whenever the result of edit begins with "error:", the file
\* keeps its content.
C13_ErrorLeavesFile ==
    EditEnded =>
        /\ Occurrences(before, call_args.old) = 0 =>
             /\ edit(before, call_args).out.kind = "return"
             /\ ErrorResult
             /\ file = before
        /\ ErrorResult => file = before

\* The lines of a result: s.split("\n").
RECURSIVE SplitLines(_)
SplitLines(s) ==
    IF "\n" \notin Range(s) THEN <<s>>
    ELSE LET i == CHOOSE k \in 1..Len(s) : s[k] = "\n" /\ \A m \in 1..(k - 1) : s[m] # "\n"
         IN  <<SubSeq(s, 1, i - 1)>> \o SplitLines(SubSeq(s, i + 1, Len(s)))

\* The lines of bash's result, the timeout marker left out.
ResultLines(s) ==
    IF EndsWithMarker(s) THEN SplitLines(RStrip(SubSeq(s, 1, Len(s) - 1))) ELSE SplitLines(s)

\* Lines without their trailing blanks, or without any blanks around them.
RStripEach(ls) == [i \in DOMAIN ls |-> RStrip(ls[i])]
StripEach(ls) == [i \in DOMAIN ls |-> Strip(ls[i])]

\* Lines without the blank lines at the start and at the end.
RECURSIVE DropBlankHead(_)
DropBlankHead(ls) ==
    IF ls # <<>> /\ Head(ls) = <<>> THEN DropBlankHead(Tail(ls)) ELSE ls

RECURSIVE DropBlankTail(_)
DropBlankTail(ls) ==
    IF ls # <<>> /\ ls[Len(ls)] = <<>> THEN DropBlankTail(SubSeq(ls, 1, Len(ls) - 1)) ELSE ls

TrimBlank(ls) == DropBlankHead(DropBlankTail(ls))

\* C14: bash never returns an empty string: the result is "(empty)" when the
\* command wrote nothing; otherwise the lines of the result are the lines that
\* were streamed, all of them and in the order streamed, and nothing else but
\* the timeout marker.
C14_ResultIsWhatWasStreamed ==
    bpc = "returned" =>
        /\ returned # <<>>
        /\ streamed = <<>> => returned = <<"(empty)">>
        /\ streamed # <<>> => StripEach(ResultLines(returned)) = StripEach(streamed)

\* C14 as amended: bash never returns an empty string: the result is the
\* text of the streamed lines, in the order streamed and joined by newlines,
\* without the blanks and the blank lines at its start and at its end (and
\* followed by the timeout marker on a timeout); it is "(empty)" when nothing
\* is left, which is so when the command wrote nothing and also when it wrote
\* blank lines only.
C14_ResultIsTrimmedStream ==
    bpc = "returned" =>
        LET kept == TrimBlank(streamed)
        IN  /\ returned # <<>>
            /\ kept = <<>> /\ ~killed => returned = <<"(empty)">>
            /\ kept # <<>> =>
                 RStripEach(ResultLines(returned)) = [kept EXCEPT ![1] = LStrip(@)]

\* C14's case: a blank line and a line of text were streamed, and the result
\* holds the text only.
C14_Witness ==
    /\ bpc = "returned"
    /\ streamed = <<<<>>, <<" ", "x">>>>
    /\ returned = <<"x">>

\* C15: read returns exactly the lines that the slice of the file's lines
\* from offset to offset + limit selects, each with its number in the file,
\* counted from 1; an offset outside the file's range gives no output and no
\* error.
C15_ReadSelectsSlice ==
    tool = "read" /\ done /\ before # NoFile =>
        LET offset == Get(call_args.offset, 0)
            limit == Get(call_args.limit, Len(before))
            shown == tool_out.val
        IN  /\ tool_out.kind = "return"
            /\ read(before, call_args).out.kind = "return"
            /\ [k \in DOMAIN shown |-> shown[k].line] = Slice(before, offset, offset + limit)
            /\ \A k \in DOMAIN shown :
                 shown[k].num \in DOMAIN before /\ before[shown[k].num] = shown[k].line
            /\ offset \notin 0..(Len(before) - 1) => shown = <<>>

\* The lines of a file that grep is to report: the matching ones among the
\* lines that can be read.  A directory and a file that cannot be opened have
\* none; a file whose reading fails part-way has none when it counts as
\* skipped, and those before the failure when partial is TRUE.
Reported(f, partial) ==
    LET upto == IF f.entry.kind # "file" THEN 0
                ELSE IF f.entry.failAt = -1 THEN Len(f.entry.lines)
                ELSE IF partial THEN f.entry.failAt
                ELSE 0
        nums == SelectSeq([i \in 1..upto |-> i], LAMBDA i : Search(f.entry.lines[i]))
    IN  [k \in 1..Len(nums) |->
            <<f.path, ":", ToString(nums[k]), ":">> \o RStrip(f.entry.lines[nums[k]])]

\* The matches in the order of the files and then of the lines.
RECURSIVE Matches(_, _)
Matches(entries, partial) ==
    IF entries = <<>> THEN <<>>
    ELSE Reported(Head(entries), partial) \o Matches(Tail(entries), partial)

\* grep was called with a pattern that compiles, and has ended.
GrepEnded == tool = "grep" /\ done /\ call_args.pat = "x"

\* The result is a returned string, no error, of at most 50 lines: "none"
\* when want is empty, else the first 50 of want, one per line.
GrepReturns(want) ==
    LET got == SplitLines(tool_out.val)
    IN  /\ tool_out.kind = "return"
        /\ ~IsErrorString(tool_out.val)
        /\ Len(got) <= HitLimit
        /\ want = <<>> => tool_out.val = <<"none">>
        /\ want # <<>> =>
             got = SubSeq(want, 1, IF Len(want) < HitLimit THEN Len(want) ELSE HitLimit)

\* C16: grep returns at most 50 lines, however many lines match: the first 50
\* matches in the order of the files and then of the lines, each as
\* path:line_number:line_content; "none" when nothing matches; a file that
\* cannot be opened or read is skipped, and the result is no error.
C16_GrepFirstFifty == GrepEnded => GrepReturns(Matches(tree, FALSE))

\* C16 as amended: as C16, where the content of a line is shown without its
\* trailing whitespace, and where a file whose reading fails part-way is not
\* skipped as a whole: the matches among its lines read before the failure are
\* reported, and those after it are not.
C16_GrepFirstFiftyRead == GrepEnded => GrepReturns(Matches(tree, TRUE))

\* C16's case: a file that cannot be opened, then files with more than 50
\* matching lines in all, of which grep returns 50, the last ones from the
\* second file with matches.
C16_Witness ==
    /\ GrepEnded
    /\ Len(tree) = 3
    /\ tree[1].entry = Denied
    /\ Len(Reported(tree[2], TRUE)) \in 1..(HitLimit - 1)
    /\ Len(Matches(tree, TRUE)) > HitLimit
    /\ Len(SplitLines(tool_out.val)) = HitLimit

\* The entry of the tree that has the given path.
EntryOf(path) == (CHOOSE i \in DOMAIN tree : tree[i].path = path)

\* C17: glob returns its matches, one path per line, by descending
\* modification time, and whatever is no regular file after every regular
\* file; it returns "none" when nothing matches.
C17_GlobNewestFirst ==
    tool = "glob" /\ done =>
        LET got == SplitLines(tool_out.val)
        IN  /\ tool_out.kind = "return"
            /\ tree = <<>> => tool_out.val = <<"none">>
            /\ tree # <<>> =>
                 /\ Len(got) = Len(tree)
                 /\ \A i \in DOMAIN tree : \E k \in DOMAIN got : got[k] = <<tree[i].path>>
                 /\ \A k \in DOMAIN got : \A m \in DOMAIN got :
                      k < m =>
                        LET f == tree[EntryOf(got[k][1])].entry
                            g == tree[EntryOf(got[m][1])].entry
                        IN  /\ f.isfile /\ g.isfile => f.mtime >= g.mtime
                            /\ ~(~f.isfile /\ g.isfile)

\* C18: the arguments of every call are resolved into a mapping or into an
\* argument error before a tool sees them: no tool implementation is invoked
\* with arguments that are no mapping, and a call whose arguments do not
\* resolve to a mapping gets an "error: ..." result without being dispatched.
C18_ToolsSeeMappingsOnly ==
    \A k \in DOMAIN execLog :
        /\ execLog[k].ran => execLog[k].args.kind = "dict"
        /\ execLog[k].args.kind # "dict" /\ k <= Len(tool_results) =>
             ~execLog[k].dispatched /\ IsErrorString(tool_results[k].result)

\* C19: user text is never sent with a previous_interaction_id that names a
\* response of which some function call has had no result delivered in an
\* accepted request.
C19_UserTurnAfterAnsweredCalls ==
    pc = "awaiting" /\ inFlight.kind = "text" /\ inFlight.prev # Absent => ~tokenOpen

====
